---- MODULE Spec2Model ----
(***************************************************************************)
(* A model of chat.go: one run of the chat process (flag handling, host    *)
(* setup, the Listener and Dialer branches of main, handleStream, readData *)
(* and writeData), together with the remote peers on the other end of each *)
(* stream and the local console.                                           *)
(*                                                                         *)
(* Strings that the program inspects (console lines, bytes on a stream)    *)
(* are sequences of one-character strings, so that ReadString('\n') and    *)
(* Sprintf("%s\n", ...) are computed rather than assumed.                  *)
(***************************************************************************)
EXTENDS Integers, Sequences, FiniteSets, TLC

\* Bounds of the model.
MaxStreams == 2
MaxLines == 2

\* ---------------------------------------------------------------------------
\* Input domains
\* ---------------------------------------------------------------------------
NL == "\n"

Streams == 1..MaxStreams

\* Lines a console read can return without error (ReadString keeps the '\n').
ConsoleLines == { <<NL>>, <<"a", NL>>, <<"a", "b", NL>> }

\* Data a console read can return together with an error (no terminator).
ConsolePartial == { <<>>, <<"a">> }

\* Values of the -dest flag: empty, not a multiaddr, a multiaddr without a
\* /p2p/ component, a full peer address.
DestValues ==
    { "", "not-an-address", "/ip4/127.0.0.1/tcp/6666",
      "/ip4/127.0.0.1/tcp/6666/p2p/QmPeer" }

\* Values of the -port flag (0 = system-assigned).
PortValues == { 0, 6666 }

\* ---------------------------------------------------------------------------
\* Pure functions of the program and of the libraries it calls
\* ---------------------------------------------------------------------------

\* multiaddr.NewMultiaddr(*dest): err == nil
MultiaddrParses(d) ==
    d \in { "/ip4/127.0.0.1/tcp/6666", "/ip4/127.0.0.1/tcp/6666/p2p/QmPeer" }

\* peer.AddrInfoFromP2pAddr(maddr): err == nil
HasPeerId(d) == d = "/ip4/127.0.0.1/tcp/6666/p2p/QmPeer"

\* The TCP port of the listen address the host is bound to, as the string
\* ValueForProtocol(P_TCP) returns; port 0 is replaced by a system-assigned one.
BoundPort(p) == IF p = 0 THEN "40001" ELSE "6666"

\* if *dest == "" { Listener } else { Dialer }
SelectRole_PortDecides(d, p) == IF p = 0 THEN "Listener" ELSE "Dialer"
SelectRole(d, p) == IF d = "" THEN "Listener" ELSE "Dialer"

\* The first TCP port among the listen addresses, "" when there is none.
RECURSIVE FirstTcpPort(_)
FirstTcpPort(las) ==
    IF las = <<>> THEN ""
    ELSE IF Head(las).tcp # "" THEN Head(las).tcp
    ELSE FirstTcpPort(Tail(las))

HasNL(buf) == \E i \in 1..Len(buf) : buf[i] = NL

FirstNL(buf) == CHOOSE i \in 1..Len(buf) : buf[i] = NL /\ \A j \in 1..(i-1) : buf[j] # NL

\* rw.ReadString('\n') on the unread bytes buf of a stream in state st:
\* through the first '\n' when there is one; otherwise, on a stream that has
\* ended, what is left together with an error.  (On an open stream without
\* a '\n' the call blocks: see CanRead.)
ReadString(buf, st) ==
    IF HasNL(buf)
    THEN [ str |-> SubSeq(buf, 1, FirstNL(buf)),
           rest |-> SubSeq(buf, FirstNL(buf) + 1, Len(buf)),
           err |-> FALSE ]
    ELSE [ str |-> buf, rest |-> <<>>, err |-> TRUE ]

CanRead(buf, st) == HasNL(buf) \/ st # "open"

\* if str == "" { return }
ReadDataReturns_Never(str) == FALSE
ReadDataReturns(str) == str = <<>>

\* if str != "\n" { fmt.Printf(...) }
ReadDataPrints_All(str) == TRUE
ReadDataPrints(str) == str # <<NL>>

\* fmt.Printf("<ESC>[32m%s<ESC>[0m$> ", str): green, the string, reset, prompt.
Green == << "ESC", "[", "3", "2", "m" >>
ResetPrompt == << "ESC", "[", "0", "m", "$", ">", " " >>
Render_Chopped(str) == Green \o SubSeq(str, 1, Len(str) - 2) \o ResetPrompt
Render(str) == Green \o str \o ResetPrompt

\* fmt.Sprintf("%s\n", sendData)
Sprintf_n(sendData) == sendData \o <<NL>>

\* ---------------------------------------------------------------------------
\* State
\* ---------------------------------------------------------------------------
VARIABLES
    help, dest, port,   \* the flags
    proc,               \* "running", "exited" (os.Exit(0)), "aborted" (panic)
    pc,                 \* position of main
    role,               \* "none" until main takes a branch
    listenAddrs,        \* host.Network().ListenAddresses()
    handlerSet,         \* SetStreamHandler("/chat/1.0.0", handleStream) done
    displayed,          \* the port shown in "This node's multiaddr is ..."
    peerstore,          \* host.Peerstore().AddAddrs done
    openAttempts,       \* calls of host.NewStream
    nStreams,           \* StreamTranscripts (rw) created so far: 1..nStreams
    strm,               \* per stream: "none", "open", "eof", "reset"
    spawn,              \* per stream: "none", "first", "second", "done"
    inLoop,             \* readData on the stream: "none", "run", "done"
    outLoop,            \* writeData on the stream: "none", "read", "write"
    inStarts, outStarts,\* how often each loop was started on the stream
    sendData,           \* the line writeData holds between read and write
    wireIn,             \* bytes sent by the peer, not yet read by readData
    wireOut,            \* bytes flushed to the peer
    reads,              \* results of readData's ReadString calls, in order
    rendered,           \* what readData printed, one entry per Printf
    typed,              \* lines writeData read from the local console
    stdinErr,           \* the last console read returned err != nil
    peerTyped           \* lines the peer's writeData read from its console

vars == << help, dest, port, proc, pc, role, listenAddrs, handlerSet,
           displayed, peerstore, openAttempts, nStreams, strm, spawn,
           inLoop, outLoop, inStarts, outStarts, sendData, wireIn, wireOut,
           reads, rendered, typed, stdinErr, peerTyped >>

flagVars == << help, dest, port >>
setupVars == << role, listenAddrs, handlerSet, displayed, peerstore, openAttempts >>
loopVars == << inLoop, outLoop, inStarts, outStarts >>
inVars == << wireIn, reads, rendered, peerTyped >>
outVars == << sendData, wireOut, typed, stdinErr >>

RECURSIVE SumLen(_, _)
SumLen(f, n) == IF n = 0 THEN 0 ELSE Len(f[n]) + SumLen(f, n - 1)

\* Lines read so far from all consoles, local and remote (bounded by MaxLines).
LinesTyped == SumLen(typed, MaxStreams) + SumLen(peerTyped, MaxStreams)

Init ==
    /\ help \in BOOLEAN
    /\ dest \in DestValues
    /\ port \in PortValues
    /\ proc = "running"
    /\ pc = "flags"
    /\ role = "none"
    /\ listenAddrs = <<>>
    /\ handlerSet = FALSE
    /\ displayed = ""
    /\ peerstore = FALSE
    /\ openAttempts = 0
    /\ nStreams = 0
    /\ strm = [t \in Streams |-> "none"]
    /\ spawn = [t \in Streams |-> "none"]
    /\ inLoop = [t \in Streams |-> "none"]
    /\ outLoop = [t \in Streams |-> "none"]
    /\ inStarts = [t \in Streams |-> 0]
    /\ outStarts = [t \in Streams |-> 0]
    /\ sendData = [t \in Streams |-> <<>>]
    /\ wireIn = [t \in Streams |-> <<>>]
    /\ wireOut = [t \in Streams |-> <<>>]
    /\ reads = [t \in Streams |-> <<>>]
    /\ rendered = [t \in Streams |-> <<>>]
    /\ typed = [t \in Streams |-> <<>>]
    /\ stdinErr = FALSE
    /\ peerTyped = [t \in Streams |-> <<>>]

\* panic(err): the process is gone, whatever goroutine called it.
Panic ==
    /\ proc' = "aborted"
    /\ pc' = pc

\* ---------------------------------------------------------------------------
\* main, up to the branch
\* ---------------------------------------------------------------------------

\* flag.Parse(); if *help { ...; os.Exit(0) }
ParseFlags ==
    /\ proc = "running" /\ pc = "flags"
    /\ IF help
       THEN proc' = "exited" /\ pc' = pc
       ELSE proc' = proc /\ pc' = "keygen"
    /\ UNCHANGED << flagVars, setupVars, nStreams, strm, spawn, loopVars, inVars, outVars >>

\* crypto.GenerateKeyPairWithReader(...); if err != nil { panic(err) }
GenerateKey ==
    /\ proc = "running" /\ pc = "keygen"
    /\ \E ok \in BOOLEAN :
         IF ok THEN proc' = proc /\ pc' = "newhost" ELSE Panic
    /\ UNCHANGED << flagVars, setupVars, nStreams, strm, spawn, loopVars, inVars, outVars >>

\* libp2p.New(ctx, ListenAddrs(sourceMultiAddr), Identity(privateKey));
\* if err != nil { panic(err) }.  The host either fails, or listens on the
\* TCP address built from -port, or ends up with no TCP listen address.
NewHost_ListenerOnly ==
    /\ proc = "running" /\ pc = "newhost"
    /\ \E res \in { "tcp", "notcp", "err" } :
         IF res = "err"
         THEN Panic /\ listenAddrs' = listenAddrs
         ELSE /\ proc' = proc /\ pc' = "branch"
              /\ listenAddrs' = IF dest # "" THEN <<>>
                                ELSE IF res = "tcp"
                                THEN << [tcp |-> BoundPort(port)] >>
                                ELSE << [tcp |-> ""] >>
    /\ UNCHANGED << flagVars, role, handlerSet, displayed, peerstore, openAttempts,
                    nStreams, strm, spawn, loopVars, inVars, outVars >>

NewHost ==
    /\ proc = "running" /\ pc = "newhost"
    /\ \E res \in { "tcp", "notcp", "err" } :
         IF res = "err"
         THEN Panic /\ listenAddrs' = listenAddrs
         ELSE /\ proc' = proc /\ pc' = "branch"
              /\ listenAddrs' = IF res = "tcp"
                                THEN << [tcp |-> BoundPort(port)] >>
                                ELSE << [tcp |-> ""] >>
    /\ UNCHANGED << flagVars, role, handlerSet, displayed, peerstore, openAttempts,
                    nStreams, strm, spawn, loopVars, inVars, outVars >>

\* if *dest == "" { ... } else { ... }
Branch ==
    /\ proc = "running" /\ pc = "branch"
    /\ role' = SelectRole(dest, port)
    /\ pc' = IF role' = "Listener" THEN "l_sethandler" ELSE "d_parse"
    /\ UNCHANGED << flagVars, proc, listenAddrs, handlerSet, displayed, peerstore,
                    openAttempts, nStreams, strm, spawn, loopVars, inVars, outVars >>

\* ---------------------------------------------------------------------------
\* main, Listener branch
\* ---------------------------------------------------------------------------

\* host.SetStreamHandler("/chat/1.0.0", handleStream)
SetStreamHandler_DisplaysFirst ==
    /\ proc = "running" /\ pc = "l_sethandler"
    /\ displayed' = FirstTcpPort(listenAddrs)
    /\ pc' = "l_port"
    /\ UNCHANGED << flagVars, proc, role, listenAddrs, handlerSet, peerstore,
                    openAttempts, nStreams, strm, spawn, loopVars, inVars, outVars >>

SetStreamHandler ==
    /\ proc = "running" /\ pc = "l_sethandler"
    /\ handlerSet' = TRUE
    /\ pc' = "l_port"
    /\ UNCHANGED << flagVars, proc, role, listenAddrs, displayed, peerstore,
                    openAttempts, nStreams, strm, spawn, loopVars, inVars, outVars >>

\* The loop over ListenAddresses(), if port == "" { panic }, the Printf of
\* this node's multiaddr, and then <-make(chan struct{}).
FindLocalPort_NoBlock ==
    /\ proc = "running" /\ pc = "l_port"
    /\ IF FirstTcpPort(listenAddrs) = ""
       THEN Panic /\ displayed' = displayed
       ELSE /\ displayed' = FirstTcpPort(listenAddrs)
            /\ pc' = pc
            /\ proc' = "exited"
    /\ UNCHANGED << flagVars, role, listenAddrs, handlerSet, peerstore,
                    openAttempts, nStreams, strm, spawn, loopVars, inVars, outVars >>

FindLocalPort_NoCheck ==
    /\ proc = "running" /\ pc = "l_port"
    /\ displayed' = FirstTcpPort(listenAddrs)
    /\ pc' = "blocked"
    /\ proc' = proc
    /\ UNCHANGED << flagVars, role, listenAddrs, handlerSet, peerstore,
                    openAttempts, nStreams, strm, spawn, loopVars, inVars, outVars >>

FindLocalPort ==
    /\ proc = "running" /\ pc = "l_port"
    /\ IF FirstTcpPort(listenAddrs) = ""
       THEN Panic /\ displayed' = displayed
       ELSE /\ displayed' = FirstTcpPort(listenAddrs)
            /\ pc' = "blocked"
            /\ proc' = proc
    /\ UNCHANGED << flagVars, role, listenAddrs, handlerSet, peerstore,
                    openAttempts, nStreams, strm, spawn, loopVars, inVars, outVars >>

\* A remote peer opens a stream with the protocol tag and the transport
\* calls handleStream on it, which wraps it: rw := bufio.NewReadWriter(...).
\* The host takes inbound streams once the handler is set and it listens.
HandleStream ==
    /\ proc = "running"
    /\ handlerSet
    /\ FirstTcpPort(listenAddrs) # ""
    /\ nStreams < MaxStreams
    /\ nStreams' = nStreams + 1
    /\ strm' = [strm EXCEPT ![nStreams + 1] = "open"]
    /\ spawn' = [spawn EXCEPT ![nStreams + 1] = "first"]
    /\ UNCHANGED << flagVars, proc, pc, setupVars, loopVars, inVars, outVars >>

\* ---------------------------------------------------------------------------
\* main, Dialer branch
\* ---------------------------------------------------------------------------

\* maddr, err := multiaddr.NewMultiaddr(*dest); if err != nil { panic(err) }
ParseDest_ErrIgnored ==
    /\ proc = "running" /\ pc = "d_parse"
    /\ proc' = proc /\ pc' = "d_info"
    /\ UNCHANGED << flagVars, setupVars, nStreams, strm, spawn, loopVars, inVars, outVars >>

ParseDest ==
    /\ proc = "running" /\ pc = "d_parse"
    /\ IF MultiaddrParses(dest) THEN proc' = proc /\ pc' = "d_info" ELSE Panic
    /\ UNCHANGED << flagVars, setupVars, nStreams, strm, spawn, loopVars, inVars, outVars >>

\* info, err := peer.AddrInfoFromP2pAddr(maddr); if err != nil { panic(err) }
AddrInfo ==
    /\ proc = "running" /\ pc = "d_info"
    /\ IF HasPeerId(dest) THEN proc' = proc /\ pc' = "d_addaddrs" ELSE Panic
    /\ UNCHANGED << flagVars, setupVars, nStreams, strm, spawn, loopVars, inVars, outVars >>

\* host.Peerstore().AddAddrs(info.ID, info.Addrs, peerstore.PermanentAddrTTL)
AddAddrs ==
    /\ proc = "running" /\ pc = "d_addaddrs"
    /\ peerstore' = TRUE
    /\ pc' = "d_newstream"
    /\ UNCHANGED << flagVars, proc, role, listenAddrs, handlerSet, displayed,
                    openAttempts, nStreams, strm, spawn, loopVars, inVars, outVars >>

\* s, err := host.NewStream(ctx, info.ID, "/chat/1.0.0");
\* if err != nil { panic(err) }; rw := bufio.NewReadWriter(...)
NewStream_Retry ==
    /\ proc = "running" /\ pc = "d_newstream"
    /\ openAttempts' = openAttempts + 1
    /\ \E ok \in BOOLEAN :
         IF ok
         THEN /\ proc' = proc /\ pc' = "d_spawn"
              /\ nStreams' = nStreams + 1
              /\ strm' = [strm EXCEPT ![nStreams + 1] = "open"]
              /\ spawn' = [spawn EXCEPT ![nStreams + 1] = "first"]
         ELSE /\ proc' = proc
              /\ pc' = IF openAttempts < 1 THEN pc ELSE "blocked"
              /\ UNCHANGED << nStreams, strm, spawn >>
    /\ UNCHANGED << flagVars, role, listenAddrs, handlerSet, displayed, peerstore,
                    loopVars, inVars, outVars >>

NewStream_WrapsBeforeCheck ==
    /\ proc = "running" /\ pc = "d_newstream"
    /\ openAttempts' = openAttempts + 1
    /\ nStreams' = nStreams + 1
    /\ strm' = [strm EXCEPT ![nStreams + 1] = "open"]
    /\ spawn' = [spawn EXCEPT ![nStreams + 1] = "first"]
    /\ \E ok \in BOOLEAN :
         IF ok THEN proc' = proc /\ pc' = "d_spawn" ELSE Panic
    /\ UNCHANGED << flagVars, role, listenAddrs, handlerSet, displayed, peerstore,
                    loopVars, inVars, outVars >>

NewStream ==
    /\ proc = "running" /\ pc = "d_newstream"
    /\ openAttempts' = openAttempts + 1
    /\ \E ok \in BOOLEAN :
         IF ok
         THEN /\ proc' = proc /\ pc' = "d_spawn"
              /\ nStreams' = nStreams + 1
              /\ strm' = [strm EXCEPT ![nStreams + 1] = "open"]
              /\ spawn' = [spawn EXCEPT ![nStreams + 1] = "first"]
         ELSE Panic /\ UNCHANGED << nStreams, strm, spawn >>
    /\ UNCHANGED << flagVars, role, listenAddrs, handlerSet, displayed, peerstore,
                    loopVars, inVars, outVars >>

\* ---------------------------------------------------------------------------
\* Starting the loops on a transcript
\* ---------------------------------------------------------------------------

\* The two go statements that follow the creation of rw.  handleStream
\* (Listener) has go readData(rw); go writeData(rw).  main (Dialer) has
\* go writeData(rw); go readData(rw); select {}.
FirstLoop(r) == IF r = "Listener" THEN "read" ELSE "write"
SecondLoop_SameAsFirst(r) == IF r = "Listener" THEN "read" ELSE "write"
SecondLoop(r) == IF r = "Listener" THEN "write" ELSE "read"

StartLoop(t, which) ==
    IF which = "read"
    THEN /\ inLoop' = [inLoop EXCEPT ![t] = "run"]
         /\ inStarts' = [inStarts EXCEPT ![t] = @ + 1]
         /\ UNCHANGED << outLoop, outStarts >>
    ELSE /\ outLoop' = [outLoop EXCEPT ![t] = "read"]
         /\ outStarts' = [outStarts EXCEPT ![t] = @ + 1]
         /\ UNCHANGED << inLoop, inStarts >>

SpawnFirst(t) ==
    /\ proc = "running" /\ spawn[t] = "first"
    /\ StartLoop(t, FirstLoop(role))
    /\ spawn' = [spawn EXCEPT ![t] = "second"]
    /\ UNCHANGED << flagVars, proc, pc, setupVars, nStreams, strm, inVars, outVars >>

SpawnSecond(t) ==
    /\ proc = "running" /\ spawn[t] = "second"
    /\ StartLoop(t, SecondLoop(role))
    /\ spawn' = [spawn EXCEPT ![t] = "done"]
    /\ pc' = IF pc = "d_spawn" THEN "blocked" ELSE pc
    /\ UNCHANGED << flagVars, proc, setupVars, nStreams, strm, inVars, outVars >>

\* ---------------------------------------------------------------------------
\* readData
\* ---------------------------------------------------------------------------

\* The return in readData ends that goroutine only: the process goes on.
GoroutineReturn_EndsProcess(p) == "exited"
GoroutineReturn(p) == p

\* One iteration of readData's loop: str, _ := rw.ReadString('\n');
\* if str == "" { return }; if str != "\n" { fmt.Printf(...) }.
ReadData(t) ==
    /\ proc = "running" /\ inLoop[t] = "run"
    /\ CanRead(wireIn[t], strm[t])
    /\ LET r == ReadString(wireIn[t], strm[t]) IN
         /\ wireIn' = [wireIn EXCEPT ![t] = r.rest]
         /\ reads' = [reads EXCEPT ![t] = Append(@, r.str)]
         /\ inLoop' = [inLoop EXCEPT ![t] = IF ReadDataReturns(r.str) THEN "done" ELSE "run"]
         /\ rendered' = [rendered EXCEPT ![t] =
                           IF ~ReadDataReturns(r.str) /\ ReadDataPrints(r.str)
                           THEN Append(@, Render(r.str))
                           ELSE @]
         /\ proc' = IF ReadDataReturns(r.str) THEN GoroutineReturn(proc) ELSE proc
    /\ UNCHANGED << flagVars, pc, setupVars, nStreams, strm, spawn,
                    outLoop, inStarts, outStarts, peerTyped, outVars >>

\* ---------------------------------------------------------------------------
\* writeData
\* ---------------------------------------------------------------------------

\* if err != nil { fmt.Println("!! Error reading input from stdin"); panic(err) }
\* with sendData holding what was read before the error.
ConsoleReadFails_ErrIgnored(t, part) ==
    /\ sendData' = [sendData EXCEPT ![t] = part]
    /\ stdinErr' = TRUE
    /\ outLoop' = [outLoop EXCEPT ![t] = "write"]
    /\ UNCHANGED << proc, pc, typed >>

ConsoleReadFails(t, part) ==
    /\ sendData' = [sendData EXCEPT ![t] = part]
    /\ stdinErr' = TRUE
    /\ Panic
    /\ UNCHANGED << typed, outLoop >>

\* fmt.Print("$> "); sendData, err := stdReader.ReadString('\n') and the
\* check of err.
ConsoleRead(t) ==
    /\ proc = "running" /\ outLoop[t] = "read"
    /\ \/ \E line \in ConsoleLines :
            /\ LinesTyped < MaxLines
            /\ sendData' = [sendData EXCEPT ![t] = line]
            /\ typed' = [typed EXCEPT ![t] = Append(@, line)]
            /\ outLoop' = [outLoop EXCEPT ![t] = "write"]
            /\ UNCHANGED << proc, pc, stdinErr >>
       \/ \E part \in ConsolePartial : ConsoleReadFails(t, part)
    /\ UNCHANGED << flagVars, setupVars, nStreams, strm, spawn, inLoop,
                    inStarts, outStarts, inVars, wireOut >>

\* rw.WriteString(fmt.Sprintf("%s\n", sendData)); rw.Flush(), the errors of
\* both ignored: on a stream whose peer is gone nothing is delivered.
WriteFlush_FailurePanics(t) ==
    /\ proc = "running" /\ outLoop[t] = "write"
    /\ IF strm[t] = "open"
       THEN /\ wireOut' = [wireOut EXCEPT ![t] = @ \o Sprintf_n(sendData[t])]
            /\ sendData' = [sendData EXCEPT ![t] = <<>>]
            /\ outLoop' = [outLoop EXCEPT ![t] = "read"]
            /\ UNCHANGED << proc, pc >>
       ELSE Panic /\ UNCHANGED << wireOut, sendData, outLoop >>
    /\ UNCHANGED << flagVars, setupVars, nStreams, strm, spawn, inLoop,
                    inStarts, outStarts, inVars, typed, stdinErr >>

WriteFlush(t) ==
    /\ proc = "running" /\ outLoop[t] = "write"
    /\ wireOut' = [wireOut EXCEPT ![t] =
                     IF strm[t] = "open" THEN @ \o Sprintf_n(sendData[t]) ELSE @]
    /\ sendData' = [sendData EXCEPT ![t] = <<>>]
    /\ outLoop' = [outLoop EXCEPT ![t] = "read"]
    /\ UNCHANGED << flagVars, proc, pc, setupVars, nStreams, strm, spawn, inLoop,
                    inStarts, outStarts, inVars, typed, stdinErr >>

\* ---------------------------------------------------------------------------
\* The peer on the other end of a stream: it runs the same program
\* ---------------------------------------------------------------------------

\* The peer's writeData reads a line from its console and writes and flushes it.
PeerWriteData(t) ==
    /\ proc = "running" /\ strm[t] = "open"
    /\ LinesTyped < MaxLines
    /\ \E line \in ConsoleLines :
         /\ peerTyped' = [peerTyped EXCEPT ![t] = Append(@, line)]
         /\ wireIn' = [wireIn EXCEPT ![t] = @ \o Sprintf_n(line)]
    /\ UNCHANGED << flagVars, proc, pc, setupVars, nStreams, strm, spawn, loopVars,
                    reads, rendered, outVars >>

\* The peer's process ends.  Its end of the stream is closed (what was sent
\* still arrives, then end-of-stream) or reset (any part of what was not yet
\* read may be lost, then a read error).
PeerDisconnect(t) ==
    /\ proc = "running" /\ strm[t] = "open"
    /\ \/ strm' = [strm EXCEPT ![t] = "eof"] /\ wireIn' = wireIn
       \/ /\ strm' = [strm EXCEPT ![t] = "reset"]
          /\ \E k \in 0..Len(wireIn[t]) :
               wireIn' = [wireIn EXCEPT ![t] = SubSeq(@, 1, k)]
    /\ UNCHANGED << flagVars, proc, pc, setupVars, nStreams, spawn, loopVars,
                    reads, rendered, peerTyped, outVars >>

\* ---------------------------------------------------------------------------
\* Specification
\* ---------------------------------------------------------------------------
Next ==
    \/ ParseFlags
    \/ GenerateKey
    \/ NewHost
    \/ Branch
    \/ SetStreamHandler
    \/ FindLocalPort
    \/ HandleStream
    \/ ParseDest
    \/ AddrInfo
    \/ AddAddrs
    \/ NewStream
    \/ \E t \in Streams : SpawnFirst(t)
    \/ \E t \in Streams : SpawnSecond(t)
    \/ \E t \in Streams : ReadData(t)
    \/ \E t \in Streams : ConsoleRead(t)
    \/ \E t \in Streams : WriteFlush(t)
    \/ \E t \in Streams : PeerWriteData(t)
    \/ \E t \in Streams : PeerDisconnect(t)

Spec == Init /\ [][Next]_vars

\* ---------------------------------------------------------------------------
\* Auxiliary operators of the properties
\* ---------------------------------------------------------------------------

\* What the peer's readData prints for the bytes buf it receives on an open
\* stream: its loop, run until the next ReadString would block.
RECURSIVE PeerRendered(_)
PeerRendered(buf) ==
    IF ~HasNL(buf) THEN <<>>
    ELSE LET r == ReadString(buf, "open") IN
         IF ReadDataReturns(r.str) THEN <<>>
         ELSE (IF ReadDataPrints(r.str) THEN << Render(r.str) >> ELSE <<>>)
              \o PeerRendered(r.rest)

Last(seq) == seq[Len(seq)]
IsPrefix(a, b) == Len(a) <= Len(b) /\ a = SubSeq(b, 1, Len(a))
IsBlank(line) == line = <<NL>>
NotBlank(line) == line # <<NL>>

\* A line without its terminator.
Chomp(line) == SubSeq(line, 1, Len(line) - 1)

\* The text between the colour prefix and the reset-and-prompt suffix of an
\* entry printed by readData, without its terminator.
Shown(entry) == Chomp(SubSeq(entry, Len(Green) + 1, Len(entry) - Len(ResetPrompt)))

ShownAll(entries) == [i \in 1..Len(entries) |-> Shown(entries[i])]
TypedNonBlank(lines) ==
    LET nb == SelectSeq(lines, NotBlank) IN [i \in 1..Len(nb) |-> Chomp(nb[i])]

\* The process has stopped: nothing of it runs any more.
Stopped == proc # "running"

\* ---------------------------------------------------------------------------
\* Properties
\* ---------------------------------------------------------------------------

\* C1: in every reachable state at most one StreamTranscript has been
\* created, also when a second remote stream-open reaches the Listener.
C1_AtMostOneTranscript == nStreams <= 1

\* C2: every transcript gets exactly one InboundLoop and one OutboundLoop,
\* started by the two statements that follow its creation; no loop is started
\* without a transcript and none twice on the same transcript.
C2_OneLoopPairPerTranscript ==
    \A t \in Streams :
        /\ inStarts[t] <= 1 /\ outStarts[t] <= 1
        /\ (inStarts[t] + outStarts[t] > 0) => (t <= nStreams /\ strm[t] # "none")
        /\ (t <= nStreams) <=> (spawn[t] # "none")
        /\ spawn[t] = "first" => inStarts[t] + outStarts[t] = 0
        /\ spawn[t] = "second" => inStarts[t] + outStarts[t] = 1
        /\ spawn[t] = "done" => (inStarts[t] = 1 /\ outStarts[t] = 1)
        /\ (inLoop[t] # "none") <=> (inStarts[t] = 1)
        /\ (outLoop[t] # "none") <=> (outStarts[t] = 1)

C2_Witness ==
    /\ role = "Listener" /\ nStreams = 2
    /\ \A t \in 1..2 : spawn[t] = "done" /\ inLoop[t] = "run" /\ outLoop[t] = "read"

\* C3: while a transcript is open, what the receiving side has rendered is,
\* entry by entry and minus the terminator, the non-blank lines typed on the
\* sending side (nothing else), and it is all of them once every byte sent
\* has been read; in both directions of the transcript.
C3_LineRoundTrip ==
    \A t \in Streams : strm[t] = "open" =>
        /\ IsPrefix(ShownAll(rendered[t]), TypedNonBlank(peerTyped[t]))
        /\ wireIn[t] = <<>> => ShownAll(rendered[t]) = TypedNonBlank(peerTyped[t])
        /\ ShownAll(PeerRendered(wireOut[t]))
             = TypedNonBlank(IF outLoop[t] = "write"
                             THEN SubSeq(typed[t], 1, Len(typed[t]) - 1)
                             ELSE typed[t])

C3_Witness ==
    \E t \in Streams :
        /\ strm[t] = "open" /\ wireIn[t] = <<>>
        /\ peerTyped[t] = << <<NL>>, <<"a", "b", NL>> >>
        /\ rendered[t] = << Render(<<"a", "b", NL>>) >>

\* C4: when the peer has disconnected and nothing is left to read, the
\* InboundLoop is not blocked, and its next read ends it without touching
\* the OutboundLoop and without ending the process.
C4_PeerDisconnectEndsInboundOnly ==
    /\ [](\A t \in Streams :
            (proc = "running" /\ inLoop[t] = "run" /\ strm[t] # "open")
                => CanRead(wireIn[t], strm[t]))
    /\ [][\A t \in Streams :
            (inLoop[t] = "run" /\ strm[t] # "open" /\ wireIn[t] = <<>>
                /\ reads'[t] # reads[t])
            => /\ inLoop'[t] = "done"
               /\ outLoop' = outLoop /\ outStarts' = outStarts
               /\ proc' = "running"]_vars

C4_Witness ==
    \E t \in Streams :
        /\ strm[t] = "eof" /\ inLoop[t] = "done" /\ proc = "running"
        /\ outLoop[t] = "read" /\ typed[t] # <<>> /\ wireOut[t] = <<>>

\* C5: the InboundLoop has terminated exactly when one of its reads has
\* returned the empty string, and that read is its last one.
C5_InboundEndsOnEmptyReadOnly ==
    \A t \in Streams :
        /\ (inLoop[t] = "done") <=> (\E i \in 1..Len(reads[t]) : reads[t][i] = <<>>)
        /\ \A i \in 1..(Len(reads[t]) - 1) : reads[t][i] # <<>>
        /\ inLoop[t] = "none" => reads[t] = <<>>

C5_Witness ==
    \E t \in Streams :
        /\ inLoop[t] = "done" /\ Len(reads[t]) >= 3
        /\ Last(reads[t]) = <<>> /\ wireIn[t] = <<>>

\* C6: a received line that is only the terminator is not rendered and does
\* not end the InboundLoop: the rendered entries are exactly those of the
\* reads that were neither empty nor blank, and after a blank read the loop
\* is still running.
C6_BlankLineSuppressed ==
    \A t \in Streams :
        /\ \A i \in 1..Len(rendered[t]) : rendered[t][i] # Render(<<NL>>)
        /\ LET vis == SelectSeq(reads[t], LAMBDA x : x # <<>> /\ x # <<NL>>)
           IN rendered[t] = [i \in 1..Len(vis) |-> Render(vis[i])]
        /\ (reads[t] # <<>> /\ Last(reads[t]) = <<NL>>) => inLoop[t] = "run"

C6_Witness ==
    \E t \in Streams :
        /\ Len(reads[t]) = 3
        /\ reads[t][1] = <<NL>> /\ reads[t][2] = <<NL>> /\ reads[t][3] = <<"a", NL>>
        /\ rendered[t] = << Render(<<"a", NL>>) >>
        /\ inLoop[t] = "run"

ListenerPcs == { "l_sethandler", "l_port" }
DialerPcs == { "d_parse", "d_info", "d_addaddrs", "d_newstream", "d_spawn" }

C8_ConsoleReadFailureAborts ==
    /\ [](stdinErr => proc = "aborted")
    /\ [][(stdinErr' /\ ~stdinErr) => (wireOut' = wireOut /\ outLoop' = outLoop)]_vars
    /\ [][proc = "aborted" => UNCHANGED vars]_vars

C8_Witness ==
    \E t \in Streams :
        /\ stdinErr /\ proc = "aborted"
        /\ outLoop[t] = "read" /\ sendData[t] = <<"a">>
        /\ typed[t] # <<>> /\ strm[t] = "open"
        /\ inLoop[t] = "run" /\ HasNL(wireIn[t])

\* C9: in the Dialer role the stream-open is attempted at most once, and when
\* it fails the process aborts with no transcript and no loop created.
C9_DialFailureFatal ==
    /\ openAttempts <= 1
    /\ (pc = "d_newstream" /\ openAttempts >= 1) =>
          /\ proc = "aborted"
          /\ nStreams = 0
          /\ \A t \in Streams :
                /\ strm[t] = "none"
                /\ inLoop[t] = "none" /\ outLoop[t] = "none"
                /\ inStarts[t] = 0 /\ outStarts[t] = 0

C9_Witness ==
    /\ role = "Dialer" /\ pc = "d_newstream" /\ openAttempts = 1
    /\ proc = "aborted"

\* -dest is given but is not the address of a peer.
Malformed(d) == d # "" /\ ~(MultiaddrParses(d) /\ HasPeerId(d))

\* C10: with a malformed -dest main gets no further than the parse or the
\* extraction of the peer identity that fails, and that step aborts the
\* process: nothing is registered in the peerstore, no stream-open is tried.
C10_MalformedDestAborts ==
    /\ [](Malformed(dest) =>
            /\ pc \in { "flags", "keygen", "newhost", "branch", "d_parse", "d_info" }
            /\ pc = "d_info" => MultiaddrParses(dest)
            /\ ~peerstore /\ openAttempts = 0 /\ nStreams = 0)
    /\ [][(\/ pc = "d_parse" /\ ~MultiaddrParses(dest)
           \/ pc = "d_info" /\ ~HasPeerId(dest)) => proc' = "aborted"]_vars

C10_Witness ==
    /\ dest = "not-an-address" /\ pc = "d_parse" /\ proc = "aborted"
    /\ ~peerstore /\ openAttempts = 0

\* C11: a Listener whose host has no listen address with a TCP port aborts at
\* the local-port check: it never displays an address and never blocks.
C11_ListenerWithoutPortAborts ==
    /\ []((role = "Listener" /\ FirstTcpPort(listenAddrs) = "") =>
             (displayed = "" /\ pc \in ListenerPcs))
    /\ [][(pc = "l_port" /\ FirstTcpPort(listenAddrs) = "") => proc' = "aborted"]_vars

C11_Witness ==
    /\ role = "Listener" /\ listenAddrs = << [tcp |-> ""] >>
    /\ pc = "l_port" /\ proc = "aborted" /\ displayed = ""

\* The bytes of a sequence of lines, one after the other.
RECURSIVE Flatten(_)
Flatten(lines) == IF lines = <<>> THEN <<>> ELSE Head(lines) \o Flatten(Tail(lines))

\* The console lines of writeData on t whose write and flush are done.
Written(t) ==
    IF outLoop[t] = "write" THEN SubSeq(typed[t], 1, Len(typed[t]) - 1) ELSE typed[t]

\* C12: what the OutboundLoop has put on an open transcript is exactly the
\* lines it read from the console, each with its one terminator and nothing
\* more, every line flushed before the next console read.
C12_WritesExactlyTheLine ==
    \A t \in Streams : strm[t] = "open" => wireOut[t] = Flatten(Written(t))

\* C13: a read error that is not end-of-stream ends the InboundLoop on that
\* very read and silently: a read on a reset transcript that returns without
\* a terminator (data with an error, or nothing) is the loop's last read, and
\* nothing read that way is rendered.
C13_ReadErrorEndsLoopSilently ==
    \A t \in Streams : strm[t] = "reset" =>
        /\ \A i \in 1..Len(reads[t]) :
              ~HasNL(reads[t][i]) => (i = Len(reads[t]) /\ inLoop[t] = "done")
        /\ \A j \in 1..Len(rendered[t]) : HasNL(rendered[t][j])

\* C14: a write or flush that fails because the peer is gone neither ends the
\* process nor the OutboundLoop: the loop, once started, is always at its
\* console read or at its write, and a failed write takes it back to the
\* prompt and the console read with the process running.
C14_WriteFailureNotFatal ==
    /\ [](\A t \in Streams : outStarts[t] = 1 => outLoop[t] \in { "read", "write" })
    /\ [][\A t \in Streams :
            (outLoop[t] = "write" /\ strm[t] # "open" /\ proc = "running"
                /\ << outLoop[t], proc >> # << outLoop'[t], proc' >>
                /\ ~stdinErr')
            => (outLoop'[t] = "read" /\ proc' = "running" /\ wireOut'[t] = wireOut[t])]_vars

C14_Witness ==
    \E t \in Streams :
        /\ strm[t] \in { "eof", "reset" } /\ proc = "running"
        /\ Len(typed[t]) = 2 /\ wireOut[t] = <<>>
        /\ outLoop[t] = "write"

\* Setup is complete: the Listener has displayed its address, the Dialer has
\* its stream.
SetupDone == displayed # "" \/ pc \in { "d_spawn", "blocked" }

\* C15: once setup is complete the process stops only by the panic of a
\* failed console read: main stays blocked for good in both roles, and no
\* end of an InboundLoop, failed write or lack of peers ends the process.
C15_NeverExitsAfterSetup ==
    /\ []((SetupDone /\ proc # "running") => (proc = "aborted" /\ stdinErr))
    /\ [](displayed # "" => pc = "blocked")
    /\ [][pc = "blocked" => pc' = "blocked"]_vars

C15_Witness ==
    /\ role = "Dialer" /\ pc = "blocked" /\ proc = "running"
    /\ strm[1] = "reset" /\ inLoop[1] = "done"
    /\ Len(typed[1]) = 1 /\ wireOut[1] = <<>> /\ outLoop[1] = "read"

\* C16: in the Dialer role the host is bound to no TCP port: -port is not
\* used.
C16_PortUnusedByDialer == role = "Dialer" => FirstTcpPort(listenAddrs) = ""

\* C16 (amended): the host is created on the listen address built from -port
\* before the Role is chosen, so a Dialer is bound to that port exactly as a
\* Listener is.
C16_PortBoundInBothRoles ==
    role # "none" =>
        /\ listenAddrs # <<>>
        /\ FirstTcpPort(listenAddrs) \in { "", BoundPort(port) }

C16_Witness ==
    /\ role = "Dialer" /\ port = 6666
    /\ listenAddrs = << [tcp |-> "6666"] >>
    /\ nStreams = 1 /\ spawn[1] = "done"

\* C17: a fatal setup error (any abort that is not the panic of a failed
\* console read) happens with no transcript created and no loop started.
C17_SetupAbortsBeforeConversation ==
    (proc = "aborted" /\ ~stdinErr) =>
        /\ nStreams = 0
        /\ \A t \in Streams :
              /\ strm[t] = "none" /\ spawn[t] = "none"
              /\ inStarts[t] = 0 /\ outStarts[t] = 0

C17_Witness ==
    /\ proc = "aborted" /\ ~stdinErr
    /\ role = "Listener" /\ handlerSet /\ pc = "l_port" /\ nStreams = 0

\* The text of a printed entry, and a line's text whether or not it still
\* has its terminator.
Payload(entry) == SubSeq(entry, Len(Green) + 1, Len(entry) - Len(ResetPrompt))
Body(line) == IF line # <<>> /\ Last(line) = NL THEN Chomp(line) ELSE line
Bodies(lines) == [i \in 1..Len(lines) |-> Body(lines[i])]
Payloads(entries) == [i \in 1..Len(entries) |-> Payload(entries[i])]

\* C18: in each direction, at any time and whatever the state of the
\* transcript, the lines rendered on the receiving side are, in order, a
\* prefix of the non-blank lines typed on the sending side.
C18_DirectionOrdered ==
    \A t \in Streams :
        /\ IsPrefix(Bodies(Payloads(rendered[t])),
                    Bodies(SelectSeq(peerTyped[t], NotBlank)))
        /\ IsPrefix(Bodies(Payloads(PeerRendered(wireOut[t]))),
                    Bodies(SelectSeq(typed[t], NotBlank)))

\* C19: the Listener displays its address only with the handler registered
\* and the host listening on the displayed port, so from then on a stream
\* that a remote peer opens is taken by handleStream, which starts its loops.
C19_HandlerBeforeDisplay ==
    /\ displayed # "" => (handlerSet /\ displayed = FirstTcpPort(listenAddrs))
    /\ (displayed # "" /\ proc = "running" /\ nStreams < MaxStreams)
          => ENABLED HandleStream
    /\ (role = "Listener" /\ nStreams > 0) => handlerSet
    /\ \A t \in Streams :
          (role = "Listener" /\ spawn[t] = "done") => (inStarts[t] = 1 /\ outStarts[t] = 1)

C19_Witness ==
    /\ role = "Listener" /\ displayed = "6666" /\ handlerSet
    /\ nStreams = 1 /\ spawn[1] = "done"
    /\ rendered[1] = << Render(<<"a", NL>>) >>

\* C20: at most one task is at a console read at any time.
C20_OneConsoleReader ==
    Cardinality({ t \in Streams : outLoop[t] = "read" }) <= 1

====
